---- MODULE Spec2Model ----
(***************************************************************************)
(* Model of src/bounding_box_prompting.py: the grid plotting helper        *)
(* plot_images_grid and the evaluation driver bounding_box_prompt.         *)
(*                                                                         *)
(* Python values: a str is the sequence of its characters, None is the     *)
(* sentinel NoneVal, a list is a sequence.  Python's 0-based index idx is  *)
(* the 1-based index idx+1 here.                                           *)
(***************************************************************************)
EXTENDS Integers, Sequences, FiniteSets, TLC

VARIABLES
    images,      \* the caller's list handed to plot_images_grid
    grid_size,   \* <<nrows, ncols>>
    titles,      \* NoneVal or a list of titles
    save_path,   \* NoneVal or a str
    ret,         \* what the last plot_images_grid call did
    openFigs,    \* matplotlib figure handles currently open
    files,       \* paths written by plt.savefig
    args,        \* the args namespace of bounding_box_prompt
    listing,     \* os.listdir of the checkpoint directory
    pc,          \* position of bounding_box_prompt
    ckpts,       \* the resolved checkpoint list
    di, ci, k, ii,   \* dataset, checkpoint, batch and image cursors
    built,       \* resources acquired so far by bounding_box_prompt
    batchLog,    \* events of the current checkpoint's batch loop
    err          \* exception that left bounding_box_prompt

vars == <<images, grid_size, titles, save_path, ret, openFigs, files,
          args, listing, pc, ckpts, di, ci, k, ii, built, batchLog, err>>

gridVars == <<images, grid_size, titles, save_path, ret, openFigs, files>>
bbpVars == <<args, listing, pc, ckpts, di, ci, k, ii, built, batchLog, err>>

\* ---------------------------------------------------------------- bounds
MaxImages == 3
MaxDim == 2
MaxTitles == 2
MaxOpenFigs == 1
MaxEntries == 3
MaxDatasets == 2
DatasetSize == 3

\* ------------------------------------------------------- program constants
BatchSize == 2

\* ---------------------------------------------------------- Python values
NoneVal == <<"<None>">>

Truthy(v) == v # NoneVal /\ v # <<>>

\* ------------------------------------------------------------------ images
PilImage == [type |-> "PIL", ndim |-> 3, chan |-> "RGB"]
GrayArray == [type |-> "ndarray", ndim |-> 2, chan |-> "L"]
BgrArray == [type |-> "ndarray", ndim |-> 3, chan |-> "BGR"]
ImageValues == {PilImage, GrayArray, BgrArray}

Blank == [type |-> "blank", ndim |-> 0, chan |-> "-"]

pillow_to_cv2(img) == [type |-> "ndarray", ndim |-> img.ndim, chan |-> "BGR"]

NormalizeCopy(imgs) == imgs

Normalize(imgs) ==
    [i \in 1..Len(imgs) |->
        IF imgs[i].type = "PIL" THEN pillow_to_cv2(imgs[i]) ELSE imgs[i]]

ExceedsGridSum(imgs, nrows, ncols) == Len(imgs) > nrows + ncols

ExceedsGrid(imgs, nrows, ncols) == Len(imgs) > nrows * ncols

\* plt.subplots squeezes a 1x1 grid to a bare Axes, which has no .flat
AxesHasFlat(nrows, ncols) == nrows * ncols > 1

cvtColorBGR2RGB(img) == [img EXCEPT !.chan = "RGB"]

Shown(img) == IF img.ndim = 2 THEN img ELSE cvtColorBGR2RGB(img)

\* a title is an atomic string; an Axes without set_title has the empty one
NoTitle == ""

TitleFor(tit, i) ==
    IF tit # NoneVal /\ i <= Len(tit) THEN tit[i] ELSE NoTitle

RenderCell(imgs, tit, i) ==
    IF i <= Len(imgs)
    THEN [img |-> Shown(imgs[i]), title |-> TitleFor(tit, i), axis |-> "off"]
    ELSE [img |-> Blank, title |-> NoTitle, axis |-> "off"]

UntouchedCell == [img |-> Blank, title |-> NoTitle, axis |-> "on"]

SaveRequestedNotNone(sp) == sp # NoneVal

SaveRequested(sp) == Truthy(sp)

NoCall ==
    [called |-> FALSE, argImages |-> <<>>, argGrid |-> <<1, 1>>,
     argTitles |-> NoneVal, argSavePath |-> NoneVal, saveOK |-> TRUE,
     raised |-> "none", fig |-> FALSE, closed |-> FALSE, cells |-> <<>>,
     saved |-> FALSE, shown |-> FALSE]

\* The whole of plot_images_grid on normalized images; saveOK is whether
\* the filesystem lets plt.savefig write.
PlotImagesGridResult(imgs, grid, tit, sp, saveOK) ==
    LET nrows == grid[1]
        ncols == grid[2]
        norm == Normalize(imgs)
        base == [NoCall EXCEPT !.called = TRUE, !.argImages = imgs,
                               !.argGrid = grid, !.argTitles = tit,
                               !.argSavePath = sp, !.saveOK = saveOK]
    IN  IF ExceedsGrid(norm, nrows, ncols)
        THEN [base EXCEPT !.raised = "ValueError"]
        ELSE IF ~AxesHasFlat(nrows, ncols)
        THEN [base EXCEPT !.raised = "AttributeError", !.fig = TRUE,
                          !.cells = <<UntouchedCell>>]
        ELSE LET cells == [i \in 1..(nrows * ncols) |-> RenderCell(norm, tit, i)]
             IN  IF SaveRequested(sp)
                 THEN IF saveOK
                      THEN [base EXCEPT !.fig = TRUE, !.cells = cells,
                                        !.saved = TRUE, !.closed = TRUE]
                      ELSE [base EXCEPT !.raised = "OSError", !.fig = TRUE,
                                        !.cells = cells]
                 ELSE [base EXCEPT !.fig = TRUE, !.cells = cells,
                                   !.shown = TRUE, !.closed = TRUE]

Leak(r) == IF r.fig /\ ~r.closed THEN 1 ELSE 0

\* -------------------------------------------------------------- filesystem
CkptDir == <<"/", "c", "k", "p", "t", "s">>
CkptFile == <<"/", "m", "o", "d", "e", "l", ".", "p", "t", "h">>
MissingPath == <<"/", "m", "i", "s", "s", "i", "n", "g", ".", "p", "t">>

Fold0Pt == <<"f", "o", "l", "d", "0", ".", "p", "t">>
Fold1Pth == <<"f", "o", "l", "d", "1", ".", "p", "t", "h">>
ReadmeTxt == <<"r", "e", "a", "d", "m", "e", ".", "t", "x", "t">>
Fold0PtBak == <<"f", "o", "l", "d", "0", ".", "p", "t", ".", "b", "a", "k">>
EntryNames == {Fold0Pt, Fold1Pth, ReadmeTxt, Fold0PtBak}

OutPng == <<"/", "t", "m", "p", "/", "o", "u", "t", ".", "p", "n", "g">>

Contains(needle, hay) ==
    \E i \in 1..(Len(hay) - Len(needle) + 1) :
        SubSeq(hay, i, i + Len(needle) - 1) = needle

EndsWith(hay, suffix) ==
    /\ Len(hay) >= Len(suffix)
    /\ SubSeq(hay, Len(hay) - Len(suffix) + 1, Len(hay)) = suffix

DotPt == <<".", "p", "t">>
DotPth == <<".", "p", "t", "h">>

\* os.path.join for a relative second component
join(a, b) == IF a = <<>> \/ a[Len(a)] = "/" THEN a \o b ELSE a \o <<"/">> \o b

isdir(p) == p = CkptDir

exists(p, ls) ==
    \/ p = CkptDir
    \/ p = CkptFile
    \/ \E i \in 1..Len(ls) : p = join(CkptDir, ls[i])

IsCheckpointName(x) == Contains(DotPt, x) \/ Contains(DotPth, x)

RECURSIVE Filter(_)
Filter(ls) ==
    IF ls = <<>> THEN <<>>
    ELSE (IF IsCheckpointName(Head(ls)) THEN <<Head(ls)>> ELSE <<>>)
         \o Filter(Tail(ls))

ResolveCkpts(ckpt, ls) ==
    IF isdir(ckpt)
    THEN LET kept == Filter(ls)
         IN  [i \in 1..Len(kept) |-> join(ckpt, kept[i])]
    ELSE <<ckpt>>

SelectCkpt(a) == IF a.lora_ckpt # NoneVal THEN a.lora_ckpt ELSE a.testing_ckpt

\* ---------------------------------------------------- bounding_box_prompt
ExpNameIgnored(a) == TRUE

ExpNamePresent(a) == a.exp_name # NoneVal

NumBatches == (DatasetSize + BatchSize - 1) \div BatchSize

BatchLen(kk) ==
    IF DatasetSize - (kk - 1) * BatchSize < BatchSize
    THEN DatasetSize - (kk - 1) * BatchSize
    ELSE BatchSize

OnBatchErrorSwallow(kk) == [pc |-> "fetch", k |-> kk + 1, err |-> "none"]

\* nothing in the batch loop catches: the exception leaves the function
OnBatchError(kk) == [pc |-> "raised", k |-> kk, err |-> "RuntimeError"]

NothingBuilt == [datasets |-> 0, models |-> 0, loads |-> 0, listdirs |-> 0, batches |-> 0]

PromptTitles == <<"source image", "instance segmentation">>

\* ------------------------------------------------------------------- Init
GridSizes == (1..MaxDim) \X (1..MaxDim)
AllTitles == [i \in 1..MaxTitles |-> "title" \o ToString(i)]
TitleLists == {NoneVal} \cup {SubSeq(AllTitles, 1, n) : n \in 0..MaxTitles}
SavePaths == {NoneVal, <<>>, OutPng}

Listings ==
    {ls \in UNION {[1..n -> EntryNames] : n \in 0..MaxEntries} :
        \A i, j \in 1..Len(ls) : i # j => ls[i] # ls[j]}
CkptArgs == {NoneVal, CkptDir, CkptFile, MissingPath}
ArgValues ==
    [exp_name : {NoneVal, <<"e">>}, lora_ckpt : CkptArgs, testing_ckpt : CkptArgs,
     eval_datasets : {[i \in 1..n |-> "ds"] : n \in 0..MaxDatasets},
     wandb : {TRUE}]
IdleArgs ==
    [exp_name |-> NoneVal, lora_ckpt |-> NoneVal, testing_ckpt |-> NoneVal,
     eval_datasets |-> <<>>, wandb |-> TRUE]

Init ==
    /\ images = <<>>
    /\ grid_size = <<1, 1>>
    /\ titles = NoneVal
    /\ save_path = NoneVal
    /\ ret = NoCall
    /\ openFigs = 0
    /\ files = {}
    /\ ckpts = <<>>
    /\ di = 0 /\ ci = 0 /\ k = 0 /\ ii = 0
    /\ built = NothingBuilt
    /\ batchLog = <<>>
    /\ err = "none"
    /\ \/ pc = "idle" /\ args = IdleArgs /\ listing = <<>>
       \/ pc = "called" /\ args \in ArgValues /\ listing \in Listings

\* ------------------------------------------- callers of plot_images_grid
AppendImage ==
    /\ pc = "idle"
    /\ Len(images) < MaxImages
    /\ \E v \in ImageValues : images' = Append(images, v)
    /\ ret' = NoCall
    /\ UNCHANGED <<grid_size, titles, save_path, openFigs, files, bbpVars>>

ClearImages ==
    /\ pc = "idle"
    /\ images' = <<>>
    /\ ret' = NoCall
    /\ UNCHANGED <<grid_size, titles, save_path, openFigs, files, bbpVars>>

SetGridSize ==
    /\ pc = "idle"
    /\ \E v \in GridSizes : grid_size' = v
    /\ ret' = NoCall
    /\ UNCHANGED <<images, titles, save_path, openFigs, files, bbpVars>>

SetTitles ==
    /\ pc = "idle"
    /\ \E v \in TitleLists : titles' = v
    /\ ret' = NoCall
    /\ UNCHANGED <<images, grid_size, save_path, openFigs, files, bbpVars>>

SetSavePath ==
    /\ pc = "idle"
    /\ \E v \in SavePaths : save_path' = v
    /\ ret' = NoCall
    /\ UNCHANGED <<images, grid_size, titles, openFigs, files, bbpVars>>

\* one call of plot_images_grid on the caller's own list
DoPlot(imgs, grid, tit, sp, saveOK) ==
    LET r == PlotImagesGridResult(imgs, grid, tit, sp, saveOK)
    IN  /\ images' = Normalize(imgs)
        /\ grid_size' = grid
        /\ titles' = tit
        /\ save_path' = sp
        /\ ret' = r
        /\ openFigs' = openFigs + Leak(r)
        /\ files' = IF r.saved THEN files \cup {sp} ELSE files

PlotImagesGrid ==
    /\ pc = "idle"
    /\ openFigs < MaxOpenFigs
    /\ \E saveOK \in (IF SaveRequested(save_path) THEN BOOLEAN ELSE {TRUE}) :
          DoPlot(images, grid_size, titles, save_path, saveOK)
    /\ UNCHANGED bbpVars

\* ------------------------------------------ steps of bounding_box_prompt
\* lines 81-92: args.wandb, the assertion, checkpoint resolution
BBPEntry ==
    /\ pc = "called"
    /\ args' = [args EXCEPT !.wandb = FALSE]
    /\ IF ~ExpNamePresent(args)
       THEN /\ pc' = "raised" /\ err' = "AssertionError"
            /\ UNCHANGED <<ckpts, built, di>>
       ELSE IF SelectCkpt(args) = NoneVal
       THEN /\ pc' = "raised" /\ err' = "TypeError"
            /\ UNCHANGED <<ckpts, built, di>>
       ELSE /\ ckpts' = ResolveCkpts(SelectCkpt(args), listing)
            /\ built' = [built EXCEPT !.listdirs =
                            @ + (IF isdir(SelectCkpt(args)) THEN 1 ELSE 0)]
            /\ pc' = "dataset" /\ di' = 1
            /\ err' = err
    /\ UNCHANGED <<gridVars, listing, ci, k, ii, batchLog>>

\* lines 94-100: next dataset, or return
NextDataset ==
    /\ pc = "dataset"
    /\ IF di > Len(args.eval_datasets)
       THEN /\ pc' = "returned"
            /\ UNCHANGED <<built, ci>>
       ELSE /\ built' = [built EXCEPT !.datasets = @ + 1]
            /\ ci' = 1
            /\ pc' = "ckpt"
    /\ UNCHANGED <<gridVars, args, listing, ckpts, di, k, ii, batchLog, err>>

\* lines 102-114: next checkpoint: build the model, load its state
NextCkpt ==
    /\ pc = "ckpt"
    /\ IF ci > Len(ckpts)
       THEN /\ di' = di + 1
            /\ pc' = "dataset"
            /\ UNCHANGED <<args, built, k, batchLog, err>>
       ELSE /\ args' = [args EXCEPT !.lora_ckpt = ckpts[ci]]
            /\ IF Truthy(args.testing_ckpt) /\ ~exists(ckpts[ci], listing)
               THEN /\ built' = [built EXCEPT !.models = @ + 1]
                    /\ pc' = "raised" /\ err' = "FileNotFoundError"
                    /\ UNCHANGED <<k, batchLog>>
               ELSE /\ built' = [built EXCEPT !.models = @ + 1,
                                    !.loads = @ + (IF Truthy(args.testing_ckpt) THEN 1 ELSE 0)]
                    /\ k' = 1
                    /\ batchLog' = <<>>
                    /\ pc' = "fetch"
                    /\ err' = err
            /\ di' = di
    /\ UNCHANGED <<gridVars, listing, ckpts, ci, ii>>

\* line 117: the loader yields batch k, or is exhausted
FetchBatch ==
    /\ pc = "fetch"
    /\ IF k > NumBatches
       THEN /\ ci' = ci + 1
            /\ pc' = "ckpt"
            /\ UNCHANGED <<batchLog, built>>
       ELSE /\ batchLog' = Append(batchLog, <<k, "fetch", 0>>)
            /\ built' = [built EXCEPT !.batches = @ + 1]
            /\ pc' = "generate"
            /\ ci' = ci
    /\ UNCHANGED <<gridVars, args, listing, ckpts, di, k, ii, err>>

\* lines 118-130: inference and mask extraction, which may raise
Generate ==
    /\ pc = "generate"
    /\ \E ok \in BOOLEAN :
         IF ok
         THEN /\ batchLog' = Append(batchLog, <<k, "generate", 0>>)
              /\ ii' = 1
              /\ pc' = "plot"
              /\ UNCHANGED <<k, err>>
         ELSE /\ batchLog' = Append(batchLog, <<k, "error", 0>>)
              /\ pc' = OnBatchError(k).pc
              /\ k' = OnBatchError(k).k
              /\ err' = OnBatchError(k).err
              /\ ii' = ii
    /\ UNCHANGED <<gridVars, args, listing, ckpts, di, ci, built>>

\* lines 131-146: annotate image ii of the batch and plot it
AnnotateAndPlot ==
    /\ pc = "plot"
    /\ IF ii > BatchLen(k)
       THEN /\ k' = k + 1
            /\ pc' = "fetch"
            /\ UNCHANGED <<gridVars, batchLog, ii, err>>
       ELSE \E ok \in BOOLEAN :
            IF ok
            THEN /\ DoPlot(<<BgrArray, BgrArray>>, <<1, 2>>, PromptTitles, NoneVal, TRUE)
                 /\ batchLog' = Append(batchLog, <<k, "plot", ii>>)
                 /\ ii' = ii + 1
                 /\ UNCHANGED <<pc, k, err>>
            ELSE /\ batchLog' = Append(batchLog, <<k, "error", ii>>)
                 /\ pc' = OnBatchError(k).pc
                 /\ k' = OnBatchError(k).k
                 /\ err' = OnBatchError(k).err
                 /\ UNCHANGED <<gridVars, ii>>
    /\ UNCHANGED <<args, listing, ckpts, di, ci, built>>

Next ==
    \/ AppendImage
    \/ ClearImages
    \/ SetGridSize
    \/ SetTitles
    \/ SetSavePath
    \/ PlotImagesGrid
    \/ BBPEntry
    \/ NextDataset
    \/ NextCkpt
    \/ FetchBatch
    \/ Generate
    \/ AnnotateAndPlot

Spec == Init /\ [][Next]_vars

\* ================================================================ claims
Capacity(r) == r.argGrid[1] * r.argGrid[2]

\* C1: every call with len(images) <= rows*columns, on any grid with
\* rows >= 1 and columns >= 1 (the 1x1 grid included) and a writable
\* save_path, completes without raising and writes the file when save_path
\* is set.
C1Original ==
    (ret.called /\ Len(ret.argImages) <= Capacity(ret) /\ ret.saveOK)
        => /\ ret.raised = "none"
           /\ Truthy(ret.argSavePath)
                => (ret.saved /\ ret.argSavePath \in files)

\* C2: a call with len(images) > rows*columns raises ValueError before a
\* figure is allocated or a cell rendered, writes no file and shows nothing;
\* a call that did allocate a figure had room for every image.
C2Theorem ==
    /\ (ret.called /\ Len(ret.argImages) > Capacity(ret))
          => /\ ret.raised = "ValueError"
             /\ ~ret.fig
             /\ ret.cells = <<>>
             /\ ~ret.saved
             /\ ~ret.shown
    /\ (ret.called /\ ret.fig) => Len(ret.argImages) <= Capacity(ret)

C2Witness ==
    /\ ret.called
    /\ Len(ret.argImages) > Capacity(ret)
    /\ Capacity(ret) > 1
    /\ ret.argSavePath = OutPng
    /\ ret.raised = "ValueError"
    /\ files = {}

\* C3: after any sequence of plot_images_grid calls no figure handle
\* remains open, whichever way each call exited.
C3Original == openFigs = 0

\* C4 as stated: in a successful call, a save_path that is not None means
\* the figure is saved and not shown; a None save_path means shown and not
\* saved.
C4Original ==
    (ret.called /\ ret.raised = "none")
        => IF ret.argSavePath # NoneVal
           THEN ret.saved /\ ~ret.shown /\ ret.argSavePath \in files
           ELSE ret.shown /\ ~ret.saved

\* C4 amended: in a successful call exactly one output effect occurs: a
\* truthy save_path (neither None nor the empty string) means saved and not
\* shown; a None or empty save_path means shown and nothing saved.
C4Theorem ==
    (ret.called /\ ret.raised = "none")
        => /\ ret.saved # ret.shown
           /\ IF Truthy(ret.argSavePath)
              THEN ret.saved /\ ~ret.shown /\ ret.argSavePath \in files
              ELSE ret.shown /\ ~ret.saved

C4Witness ==
    /\ ret.called
    /\ ret.raised = "none"
    /\ ret.argSavePath = <<>>
    /\ ret.shown
    /\ files = {}

\* the state right after lines 81-92, args.lora_ckpt not yet overwritten
Resolved == pc = "dataset" /\ di = 1

RangeOf(sq) == {sq[i] : i \in 1..Len(sq)}

HasCkptSuffix(x) == EndsWith(x, DotPt) \/ EndsWith(x, DotPth)

\* C5: for a directory the resolver returns exactly the joined paths of the
\* entries whose name ends in '.pt' or '.pth'; for a single file it returns
\* the one-element list of that path.
C5Original ==
    Resolved =>
        IF isdir(SelectCkpt(args))
        THEN /\ RangeOf(ckpts) =
                  {join(SelectCkpt(args), x) :
                      x \in {y \in RangeOf(listing) : HasCkptSuffix(y)}}
             /\ Len(ckpts) = Cardinality(RangeOf(ckpts))
        ELSE SelectCkpt(args) = CkptFile => ckpts = <<CkptFile>>

AfterEntry == (pc = "raised" /\ di = 0) \/ Resolved

\* C6: when the checkpoint path does not exist, resolution fails with a
\* filesystem error and never yields a list holding a non-existent path.
C6Original ==
    (/\ AfterEntry
     /\ ExpNamePresent(args)
     /\ SelectCkpt(args) # NoneVal
     /\ ~exists(SelectCkpt(args), listing))
        => /\ pc = "raised"
           /\ err = "FileNotFoundError"
           /\ \A i \in 1..Len(ckpts) : exists(ckpts[i], listing)

\* C7: with exp_name None, bounding_box_prompt fails at entry with nothing
\* acquired: no dataset, no model, no load, no directory listing, no batch,
\* no plot.
C7Theorem ==
    (pc \notin {"idle", "called"} /\ args.exp_name = NoneVal)
        => /\ pc = "raised"
           /\ err = "AssertionError"
           /\ built = NothingBuilt
           /\ ckpts = <<>>
           /\ batchLog = <<>>
           /\ ~ret.called

C7Witness ==
    /\ pc = "raised"
    /\ err = "AssertionError"
    /\ args.exp_name = NoneVal
    /\ args.lora_ckpt = CkptDir
    /\ Len(args.eval_datasets) > 0
    /\ Len(listing) > 0
    /\ ~args.wandb

\* C8: every grid cell i carries titles[i] exactly when i < len(images),
\* titles is given and i < len(titles), and a short titles list never makes
\* the call raise.
C8Original ==
    (ret.called /\ Len(ret.argImages) <= Capacity(ret) /\ ret.saveOK)
        => /\ ret.raised = "none"
           /\ Len(ret.cells) = Capacity(ret)
           /\ \A i \in 1..Len(ret.cells) :
                ret.cells[i].title =
                    IF /\ i <= Len(ret.argImages)
                       /\ ret.argTitles # NoneVal
                       /\ i <= Len(ret.argTitles)
                    THEN ret.argTitles[i]
                    ELSE NoTitle

HasError(log) == \E p \in 1..Len(log) : log[p][2] = "error"

Follows(a, b) ==
    CASE a[2] = "fetch" -> b \in {<<a[1], "generate", 0>>, <<a[1], "error", 0>>}
      [] a[2] = "generate" -> b \in {<<a[1], "plot", 1>>, <<a[1], "error", 1>>}
      [] a[2] = "plot" ->
            \/ a[3] < BatchLen(a[1])
                  /\ b \in {<<a[1], "plot", a[3] + 1>>, <<a[1], "error", a[3] + 1>>}
            \/ a[3] = BatchLen(a[1]) /\ b = <<a[1] + 1, "fetch", 0>>
      [] OTHER -> FALSE

Sequential(log) ==
    /\ log # <<>> => log[1] = <<1, "fetch", 0>>
    /\ \A p \in 1..(Len(log) - 1) : Follows(log[p], log[p + 1])

\* C9: within a checkpoint, batch k is fetched, generated and each of its
\* images plotted before batch k+1 is fetched, and once a batch has raised
\* nothing more is processed: the function has left with the exception.
C9Theorem ==
    [][/\ Sequential(batchLog')
       /\ HasError(batchLog')
            => (pc' = "raised" /\ err' # "none")
       /\ HasError(batchLog)
            => UNCHANGED <<batchLog, built, ret, pc, k, ci, di>>]_vars

C9Witness ==
    /\ HasError(batchLog)
    /\ pc = "raised"
    /\ batchLog[Len(batchLog)][1] < NumBatches
    /\ ci < Len(ckpts)
    /\ Len(batchLog) > 2

\* C10: after any call, the ValueError one included, the caller's list holds
\* the converted array in place of every PIL element and every other element
\* where it was; grid_size, titles and save_path are as passed.
C10Theorem ==
    ret.called =>
        /\ Len(images) = Len(ret.argImages)
        /\ \A i \in 1..Len(images) :
              images[i] = IF ret.argImages[i].type = "PIL"
                          THEN [type |-> "ndarray", ndim |-> 3, chan |-> "BGR"]
                          ELSE ret.argImages[i]
        /\ grid_size = ret.argGrid
        /\ titles = ret.argTitles
        /\ save_path = ret.argSavePath

C10Witness ==
    /\ ret.called
    /\ ret.raised = "ValueError"
    /\ \E i \in 1..Len(ret.argImages) : ret.argImages[i].type = "PIL"
    /\ \E i \in 1..Len(ret.argImages) : ret.argImages[i] = GrayArray
    /\ \A i \in 1..Len(images) : images[i].type = "ndarray"
====
